---- MODULE Spec2Model ----
(***************************************************************************)
(* Model of audiblez/voices.py: the voice catalog, validate_voice with its *)
(* helper try_tensor_blend, and parse_voice_blend.                         *)
(*                                                                         *)
(* Python strings are sequences of one-character strings.  Python floats   *)
(* are binary floating point numbers m * 2^e rounded to nearest-even; the  *)
(* model keeps that arithmetic and the order of the roundings the code     *)
(* performs, with a significand of MantBits bits.                          *)
(***************************************************************************)
EXTENDS Integers, Sequences, FiniteSets, TLC

(* ----------------------------- bounds ---------------------------------- *)
\* significand width of the modelled floating point format
MantBits == 8
\* largest number of comma-separated parts of a drawn selector
MaxParts == 3
\* largest length of an embedding vector a backend hands out
MaxDim == 3

(* ------------------------- the voice catalog --------------------------- *)
voices_a ==
    << <<"a","f","_","a","l","l","o","y">>,
       <<"a","f","_","a","o","e","d","e">>,
       <<"a","f","_","b","e","l","l","a">>,
       <<"a","f","_","h","e","a","r","t">>,
       <<"a","f","_","j","e","s","s","i","c","a">>,
       <<"a","f","_","k","o","r","e">>,
       <<"a","f","_","n","i","c","o","l","e">>,
       <<"a","f","_","n","o","v","a">>,
       <<"a","f","_","r","i","v","e","r">>,
       <<"a","f","_","s","a","r","a","h">>,
       <<"a","f","_","s","k","y">>,
       <<"a","m","_","a","d","a","m">>,
       <<"a","m","_","e","c","h","o">>,
       <<"a","m","_","e","r","i","c">>,
       <<"a","m","_","f","e","n","r","i","r">>,
       <<"a","m","_","l","i","a","m">>,
       <<"a","m","_","m","i","c","h","a","e","l">>,
       <<"a","m","_","o","n","y","x">>,
       <<"a","m","_","p","u","c","k">>,
       <<"a","m","_","s","a","n","t","a">> >>

voices_b ==
    << <<"b","f","_","a","l","i","c","e">>,
       <<"b","f","_","e","m","m","a">>,
       <<"b","f","_","i","s","a","b","e","l","l","a">>,
       <<"b","f","_","l","i","l","y">>,
       <<"b","m","_","d","a","n","i","e","l">>,
       <<"b","m","_","f","a","b","l","e">>,
       <<"b","m","_","g","e","o","r","g","e">>,
       <<"b","m","_","l","e","w","i","s">> >>

voices_e ==
    << <<"e","f","_","d","o","r","a">>,
       <<"e","m","_","a","l","e","x">>,
       <<"e","m","_","s","a","n","t","a">> >>

voices_f ==
    << <<"f","f","_","s","i","w","i","s">> >>

voices_h ==
    << <<"h","f","_","a","l","p","h","a">>,
       <<"h","f","_","b","e","t","a">>,
       <<"h","m","_","o","m","e","g","a">>,
       <<"h","m","_","p","s","i">> >>

voices_i ==
    << <<"i","f","_","s","a","r","a">>,
       <<"i","m","_","n","i","c","o","l","a">> >>

voices_j ==
    << <<"j","f","_","a","l","p","h","a">>,
       <<"j","f","_","g","o","n","g","i","t","s","u","n","e">>,
       <<"j","f","_","n","e","z","u","m","i">>,
       <<"j","f","_","t","e","b","u","k","u","r","o">>,
       <<"j","m","_","k","u","m","o">> >>

voices_p ==
    << <<"p","f","_","d","o","r","a">>,
       <<"p","m","_","a","l","e","x">>,
       <<"p","m","_","s","a","n","t","a">> >>

voices_z ==
    << <<"z","f","_","x","i","a","o","b","e","i">>,
       <<"z","f","_","x","i","a","o","n","i">>,
       <<"z","f","_","x","i","a","o","x","i","a","o">>,
       <<"z","f","_","x","i","a","o","y","i">>,
       <<"z","m","_","y","u","n","j","i","a","n">>,
       <<"z","m","_","y","u","n","x","i">>,
       <<"z","m","_","y","u","n","x","i","a">>,
       <<"z","m","_","y","u","n","y","a","n","g">> >>

\* the `voices` dict: language code -> list of voice names, in declaration order
voices ==
    << voices_a, voices_b, voices_e, voices_f, voices_h, voices_i, voices_j, voices_p, voices_z >>

RECURSIVE Flatten(_)
Flatten(lists) ==
    IF lists = <<>> THEN <<>> ELSE Head(lists) \o Flatten(Tail(lists))

\* get_all_voices(): the groups concatenated in order
get_all_voices == Flatten(voices)

SeqToSet(s) == { s[i] : i \in 1..Len(s) }

(* --------------------------- Python strings ---------------------------- *)
\* the characters of the model, in code-point order
CodeOrder ==
    << " ", ",", "-", "0", "1", "2", "3", "4", "5", "6", "7", "8", "9", ":", "_",
       "a", "b", "c", "d", "e", "f", "g", "h", "i", "j", "k", "l", "m", "n", "o",
       "p", "q", "r", "s", "t", "u", "v", "w", "x", "y", "z" >>

Ord(c) == CHOOSE i \in 1..Len(CodeOrder) : CodeOrder[i] = c

Whitespace == { " " }
Digits == << "0", "1", "2", "3", "4", "5", "6", "7", "8", "9" >>
IsDigit(c) == \E i \in 1..10 : Digits[i] = c
DigitVal(c) == (CHOOSE i \in 1..10 : Digits[i] = c) - 1

\* c in s
Contains(s, c) == \E i \in 1..Len(s) : s[i] = c

\* str.strip(): drop leading and trailing whitespace
RECURSIVE LStrip(_)
LStrip(s) ==
    IF s # <<>> /\ Head(s) \in Whitespace THEN LStrip(Tail(s)) ELSE s

RECURSIVE RStrip(_)
RStrip(s) ==
    IF s # <<>> /\ s[Len(s)] \in Whitespace THEN RStrip(SubSeq(s, 1, Len(s) - 1)) ELSE s

Strip(s) == RStrip(LStrip(s))

\* position of the first occurrence of c in s, 0 when there is none
FirstIndex(s, c) ==
    IF Contains(s, c) THEN CHOOSE i \in 1..Len(s) : s[i] = c /\ \A j \in 1..(i - 1) : s[j] # c
    ELSE 0

\* str.split(sep): every separator cuts, empty pieces are kept
RECURSIVE Split(_, _)
Split(s, sep) ==
    LET i == FirstIndex(s, sep) IN
    IF i = 0 THEN << s >>
    ELSE << SubSeq(s, 1, i - 1) >> \o Split(SubSeq(s, i + 1, Len(s)), sep)

\* str.split(sep, 1): cut at the first separator only (the caller checked there is one)
SplitFirst(s, sep) ==
    LET i == FirstIndex(s, sep) IN
    << SubSeq(s, 1, i - 1), SubSeq(s, i + 1, Len(s)) >>

\* s < t in Python's string order (code points, a proper prefix first)
RECURSIVE StrLess(_, _)
StrLess(s, t) ==
    IF t = <<>> THEN FALSE
    ELSE IF s = <<>> THEN TRUE
    ELSE IF Head(s) # Head(t) THEN Ord(Head(s)) < Ord(Head(t))
    ELSE StrLess(Tail(s), Tail(t))

\* sorted(S) for a set of strings
RECURSIVE Sorted(_)
Sorted(S) ==
    IF S = {} THEN <<>>
    ELSE LET least == CHOOSE x \in S : \A y \in S \ {x} : StrLess(x, y)
         IN << least >> \o Sorted(S \ {least})

(* --------------------------- Python floats ----------------------------- *)
\* A float is [m, e] standing for m * 2^e, kept canonical: m is odd, or m = e = 0.
\* Every operation rounds its exact result to MantBits significant bits,
\* ties to even; the exponent range is not bounded (no weight drawn here
\* comes near overflow).
RECURSIVE Pow2(_)
Pow2(n) == IF n <= 0 THEN 1 ELSE 2 * Pow2(n - 1)

Abs(n) == IF n < 0 THEN -n ELSE n
Sign(n) == IF n < 0 THEN -1 ELSE IF n > 0 THEN 1 ELSE 0

RECURSIVE BitLen(_)
BitLen(n) == IF n = 0 THEN 0 ELSE 1 + BitLen(n \div 2)

RECURSIVE Canon(_, _)
Canon(m, e) ==
    IF m = 0 THEN [m |-> 0, e |-> 0]
    ELSE IF m % 2 = 0 THEN Canon(m \div 2, e + 1)
    ELSE [m |-> m, e |-> e]

\* the float nearest to M * 2^E
RoundTo(M, E) ==
    LET a == Abs(M)
        k == IF BitLen(a) > MantBits THEN BitLen(a) - MantBits ELSE 0
        q == a \div Pow2(k)
        r == a % Pow2(k)
        half == Pow2(k - 1)
        up == k > 0 /\ (r > half \/ (r = half /\ q % 2 = 1))
    IN Canon(Sign(M) * (IF up THEN q + 1 ELSE q), E + k)

FromInt(n) == RoundTo(n, 0)

\* a + b
FAdd(a, b) ==
    IF a.m = 0 THEN b
    ELSE IF b.m = 0 THEN a
    ELSE LET hi == IF a.e >= b.e THEN a ELSE b
             lo == IF a.e >= b.e THEN b ELSE a
             d == hi.e - lo.e
             guard == MantBits + 3
         IN IF d <= 2 * MantBits + 3
            THEN RoundTo(hi.m * Pow2(d) + lo.m, lo.e)
            ELSE RoundTo(hi.m * Pow2(guard) + Sign(lo.m), hi.e - guard)

\* a * b
FMul(a, b) == RoundTo(a.m * b.m, a.e + b.e)

\* a / b for b # 0: the quotient carries a sticky bit for its remainder
FDiv(a, b) ==
    LET s == 2 * MantBits + 1
        n == Abs(a.m) * Pow2(s)
        q == n \div Abs(b.m)
        sticky == IF n % Abs(b.m) = 0 THEN 0 ELSE 1
    IN RoundTo(Sign(a.m) * Sign(b.m) * (2 * q + sticky), a.e - b.e - s - 1)

Zero == FromInt(0)
Hundred == FromInt(100)

\* float(text) after the text was stripped: an optional sign and decimal
\* digits give the nearest float, anything else is a ValueError.  (Weight
\* texts with a fraction, an exponent, underscores, "inf" or "nan" are not
\* drawn by this model.)
RECURSIVE DecVal(_, _)
DecVal(ds, acc) ==
    IF ds = <<>> THEN acc ELSE DecVal(Tail(ds), 10 * acc + DigitVal(Head(ds)))

IsNumber(text) ==
    LET t == Strip(text)
        body == IF t # <<>> /\ Head(t) = "-" THEN Tail(t) ELSE t
    IN body # <<>> /\ \A i \in 1..Len(body) : IsDigit(body[i])

float(text) ==
    LET t == Strip(text)
        neg == t # <<>> /\ Head(t) = "-"
        body == IF neg THEN Tail(t) ELSE t
    IN FromInt((IF neg THEN -1 ELSE 1) * DecVal(body, 0))

(* ------------------------------ inputs --------------------------------- *)
af_sarah == <<"a","f","_","s","a","r","a","h">>
am_adam == <<"a","m","_","a","d","a","m">>
\* an identifier the static catalog does not hold
xx == <<"x","x">>
yy == <<"y","y">>

Ids == { af_sarah, am_adam, xx }

WeightTexts ==
    { <<"6","0">>, <<"4","0">>, <<"0">>, <<"-","5","0">>, <<"1">>, <<"5">>, <<"x">>, <<>> }

\* one comma-separated part: an identifier, optionally ":" and a weight text,
\* optionally with blanks around each piece
Parts(padded) ==
    LET sp == IF padded THEN <<" ">> ELSE <<>> IN
    { sp \o id \o sp : id \in Ids }
    \cup { sp \o id \o sp \o <<":">> \o sp \o w \o sp : id \in Ids, w \in WeightTexts }

SmallParts ==
    { af_sarah \o <<":","6","0">>, am_adam \o <<":","4","0">>, am_adam, xx,
      af_sarah \o <<":","x">>, xx \o <<":","0">> }

\* parts naming two different identifiers outside the catalog
UnknownParts == { xx, yy, xx \o <<":","0">>, yy \o <<":","0">> }

RECURSIVE Joined(_, _)
\* the selectors made of n parts of the set P
Joined(P, n) ==
    IF n = 1 THEN P
    ELSE { s \o <<",">> \o p : s \in Joined(P, n - 1), p \in P }

Selectors ==
    UNION { Joined(Parts(padded), n) : padded \in BOOLEAN, n \in 1..2 }
    \cup UNION { Joined(SmallParts, n) : n \in 3..MaxParts }
    \cup Joined(UnknownParts, 2)

\* embedding vectors: the first d components of a fixed vector per voice
FullEmbedding(id) ==
    IF id = af_sarah THEN [i \in 1..(MaxDim + 1) |-> FromInt(i)]
    ELSE [i \in 1..(MaxDim + 1) |-> FromInt(7 - 3 * i)]

Tensor(id, d) == [t |-> "tensor", v |-> SubSeq(FullEmbedding(id), 1, d)]
NoneValue == [t |-> "None"]
\* a value that is not a torch tensor (say a numpy array)
ArrayValue == [t |-> "array"]

Entries(id) == { NoneValue, ArrayValue } \cup { Tensor(id, d) : d \in 1..MaxDim }

\* The kokoro argument: None, or an object described by
\*   load   - "missing" when it has no load_voice/voices attributes, else "ok"
\*   raises - the names load_voice raises for
\*   voices - what kokoro.voices holds for a name once it was loaded
\*   listed - the names its voice listing reports, or "missing" without one
\* A Kokoro object has no __bool__/__len__, so `if kokoro:` is true for it.
NoBackend == [kind |-> "None"]

Backend(load, raises, ea, eb, listed) ==
    [kind |-> "Kokoro", load |-> load, raises |-> raises,
     voices |-> [id \in { af_sarah, am_adam } |-> IF id = af_sarah THEN ea ELSE eb],
     listed |-> listed]

NoListing == [has |-> FALSE, names |-> {}]
Listing(S) == [has |-> TRUE, names |-> S]

Backends ==
    { NoBackend }
    \cup { Backend("ok", {}, ea, eb, NoListing) : ea \in Entries(af_sarah), eb \in Entries(am_adam) }
    \cup { Backend("missing", {}, Tensor(af_sarah, 2), Tensor(am_adam, 2), NoListing),
           Backend("ok", { am_adam }, Tensor(af_sarah, 2), Tensor(am_adam, 2), NoListing),
           Backend("ok", { af_sarah, am_adam }, Tensor(af_sarah, 2), Tensor(am_adam, 2), NoListing),
           Backend("ok", {}, Tensor(af_sarah, 2), Tensor(am_adam, 2), Listing({ af_sarah, xx })),
           Backend("missing", {}, NoneValue, NoneValue, Listing({ af_sarah, xx })) }

(* ------------------------------- state --------------------------------- *)
VARIABLES
    voice,        \* the selector argument
    kokoro,       \* the backend argument
    pc,           \* where the call stands
    voices_list,  \* validate_voice: the identifiers parsed so far
    weights,      \* validate_voice: the weights, raw and then normalized
    tensors,      \* try_tensor_blend: <<voice1_tensor, voice2_tensor>>
    calls,        \* the calls made into kokoro, in order
    result,       \* what validate_voice returned, or the error it exited on
    parsed        \* what parse_voice_blend returned

vars == << voice, kokoro, pc, voices_list, weights, tensors, calls, result, parsed >>

NoResult == [tag |-> "none"]
Single(v) == [tag |-> "Single", voice |-> v]
Blend(t) == [tag |-> "Blend", tensor |-> t]
\* print(f"Error validating voice: {e}"); sys.exit(1)
Exit(kind, detail, supported) ==
    [tag |-> "Error", kind |-> kind, detail |-> detail, supported |-> supported]

Init ==
    /\ voice \in Selectors
    /\ kokoro \in Backends
    /\ pc = "idle"
    /\ voices_list = <<>>
    /\ weights = <<>>
    /\ tensors = <<>>
    /\ calls = <<>>
    /\ result = NoResult
    /\ parsed = NoResult

(* --------------------------- validate_voice ---------------------------- *)
\* faulty variant: the backend's listing replaces the catalog when there is one
supported_voices_listed ==
    IF kokoro # NoBackend /\ kokoro.listed.has THEN kokoro.listed.names
    ELSE SeqToSet(get_all_voices)

\* supported_voices = set(get_all_voices()): the static catalog, whatever kokoro is
supported_voices == SeqToSet(get_all_voices)

\* ', '.join(sorted(supported_voices)), kept as the list of names
supported_voices_list == Sorted(supported_voices)

is_voice_blend(v) == Contains(v, ",")

\* the weight of a pair without a colon
DefaultWeight == FromInt(50)

\* one turn of the loop over voice.split(','): the identifier, and the weight
\* or the text float() rejected
ParsePair(pair) ==
    IF Contains(pair, ":")
    THEN LET vw == SplitFirst(Strip(pair), ":")
             ok == IsNumber(vw[2])
         IN [v |-> Strip(vw[1]), ok |-> ok, text |-> Strip(vw[2]),
             w |-> IF ok THEN float(vw[2]) ELSE Zero]
    ELSE [v |-> Strip(pair), ok |-> TRUE, text |-> <<>>, w |-> DefaultWeight]

\* the whole loop: it stops at the first weight that is not a number
RECURSIVE ParsePairs(_, _, _)
ParsePairs(pairs, vl, ws) ==
    IF pairs = <<>> THEN [ok |-> TRUE, voices_list |-> vl, weights |-> ws, text |-> <<>>]
    ELSE LET p == ParsePair(Head(pairs)) IN
         IF p.ok THEN ParsePairs(Tail(pairs), Append(vl, p.v), Append(ws, p.w))
         ELSE [ok |-> FALSE, voices_list |-> Append(vl, p.v), weights |-> ws, text |-> p.text]

\* faulty variant: only fewer than two parts are refused
CountOk_atleast(vl) == Len(vl) >= 2

\* len(voices_list) != 2 raises
CountOk(vl) == Len(vl) = 2

\* faulty variant: the selector is trimmed before the lookup
SingleSupported_trimmed(v) == Strip(v) \in supported_voices

\* the membership test of the single-voice path: the selector as given
SingleSupported(v) == v \in supported_voices

\* faulty variant: the last name outside the set is reported
FirstUnsupported_last(vl) ==
    IF \A i \in 1..Len(vl) : vl[i] \in supported_voices THEN 0
    ELSE CHOOSE i \in 1..Len(vl) :
            /\ vl[i] \notin supported_voices
            /\ \A j \in (i + 1)..Len(vl) : vl[j] \in supported_voices

\* the loop over voices_list: index of the first name outside the set, 0 if none
FirstUnsupported(vl) ==
    IF \A i \in 1..Len(vl) : vl[i] \in supported_voices THEN 0
    ELSE CHOOSE i \in 1..Len(vl) :
            /\ vl[i] \notin supported_voices
            /\ \A j \in 1..(i - 1) : vl[j] \in supported_voices

\* sum(weights): 0 + w1 + w2, left to right
RECURSIVE SumFrom(_, _)
SumFrom(ws, acc) == IF ws = <<>> THEN acc ELSE SumFrom(Tail(ws), FAdd(acc, Head(ws)))

Sum(ws) == SumFrom(ws, Zero)

\* faulty variant: the weights are left as parsed
Normalized_unscaled(ws) == ws

\* if total != 100: weights = [w * (100/total) for w in weights]
Normalized(ws) ==
    LET total == Sum(ws) IN
    IF total # Hundred THEN [i \in 1..Len(ws) |-> FMul(ws[i], FDiv(Hundred, total))]
    ELSE ws

\* faulty variant: the second voice is the fallback
FallbackVoice_second(vl) == vl[2]

\* fallback_voice = voices_list[0]
FallbackVoice(vl) == vl[1]

\* faulty variant: the second voice is asked for first
LoadOrder_reversed(vl) == << vl[2], vl[1] >>

\* the order in which try_tensor_blend asks for the two voices
LoadOrder(vl) == << vl[1], vl[2] >>

\* kokoro.voices.get(name)
VoicesGet(name) ==
    IF name \in DOMAIN kokoro.voices THEN kokoro.voices[name] ELSE NoneValue

\* faulty variant: only equal shapes combine
Broadcastable_equal(n, m) == n = m

\* torch broadcasting of two one-dimensional shapes
Broadcastable(n, m) == n = m \/ n = 1 \/ m = 1

Scale(t, w) == [i \in 1..Len(t) |-> FMul(t[i], w)]

\* a + b for tensors the caller found broadcastable
TensorAdd(a, b) ==
    LET n == IF Len(a) >= Len(b) THEN Len(a) ELSE Len(b) IN
    [i \in 1..n |-> FAdd(a[IF Len(a) = 1 THEN 1 ELSE i], b[IF Len(b) = 1 THEN 1 ELSE i])]

\* faulty variant: the weights are applied to the wrong tensors
WeightedSum_swapped(t1, w1, t2, w2) == TensorAdd(Scale(t1, w2), Scale(t2, w1))

\* voice1_tensor * weight1 + voice2_tensor * weight2
WeightedSum(t1, w1, t2, w2) == TensorAdd(Scale(t1, w1), Scale(t2, w2))

\* lines 51-60 of try_tensor_blend: the blended tensor, or None when a value
\* is missing, is no tensor, or the arithmetic raises
BlendOf(ts, ws) ==
    IF ts[1].t = "tensor" /\ ts[2].t = "tensor" /\ Broadcastable(Len(ts[1].v), Len(ts[2].v))
    THEN [t |-> "tensor",
          v |-> WeightedSum(ts[1].v, FDiv(ws[1], Hundred), ts[2].v, FDiv(ws[2], Hundred))]
    ELSE NoneValue

\* the single-voice path
SingleVoice ==
    /\ pc = "idle"
    /\ ~is_voice_blend(voice)
    /\ IF SingleSupported(voice)
       THEN result' = Single(voice) /\ pc' = "done"
       ELSE result' = Exit("UnsupportedVoice", voice, supported_voices_list) /\ pc' = "exit"
    /\ UNCHANGED << voice, kokoro, voices_list, weights, tensors, calls, parsed >>

\* the loop parsing the voice:weight pairs
ParseBlend ==
    /\ pc = "idle"
    /\ is_voice_blend(voice)
    /\ LET r == ParsePairs(Split(voice, ","), <<>>, <<>>) IN
       /\ voices_list' = r.voices_list
       /\ weights' = r.weights
       /\ IF r.ok THEN pc' = "count" /\ UNCHANGED result
          ELSE pc' = "exit" /\ result' = Exit("InvalidWeight", r.text, <<>>)
    /\ UNCHANGED << voice, kokoro, tensors, calls, parsed >>

CheckCount ==
    /\ pc = "count"
    /\ IF CountOk(voices_list) THEN pc' = "validate" /\ UNCHANGED result
       ELSE pc' = "exit" /\ result' = Exit("MalformedBlendSelector", voice, <<>>)
    /\ UNCHANGED << voice, kokoro, voices_list, weights, tensors, calls, parsed >>

ValidateVoices ==
    /\ pc = "validate"
    /\ LET bad == FirstUnsupported(voices_list) IN
       IF bad = 0 THEN pc' = "normalize" /\ UNCHANGED result
       ELSE /\ pc' = "exit"
            /\ result' = Exit("UnsupportedVoice", voices_list[bad], supported_voices_list)
    /\ UNCHANGED << voice, kokoro, voices_list, weights, tensors, calls, parsed >>

NormalizeWeights ==
    /\ pc = "normalize"
    /\ IF Sum(weights) = Zero
       THEN pc' = "exit" /\ result' = Exit("ZeroWeightSum", <<>>, <<>>) /\ UNCHANGED weights
       ELSE pc' = "blend" /\ weights' = Normalized(weights) /\ UNCHANGED result
    /\ UNCHANGED << voice, kokoro, voices_list, tensors, calls, parsed >>

\* `if kokoro:` is false: straight to the fallback voice
FallbackNoBackend ==
    /\ pc = "blend"
    /\ kokoro = NoBackend
    /\ result' = Single(FallbackVoice(voices_list))
    /\ pc' = "done"
    /\ UNCHANGED << voice, kokoro, voices_list, weights, tensors, calls, parsed >>

validate_voice ==
    \/ SingleVoice
    \/ ParseBlend
    \/ CheckCount
    \/ ValidateVoices
    \/ NormalizeWeights
    \/ FallbackNoBackend

(* -------------------------- try_tensor_blend --------------------------- *)
\* kokoro.load_voice(voices_list[0]) and then kokoro.load_voice(voices_list[1]);
\* a missing attribute or a raising call ends in the except branch, and
\* validate_voice then returns the fallback voice
LoadVoice ==
    /\ pc \in { "blend", "load2" }
    /\ kokoro # NoBackend
    /\ LET name == LoadOrder(voices_list)[IF pc = "blend" THEN 1 ELSE 2] IN
       IF kokoro.load = "missing"
       THEN /\ result' = Single(FallbackVoice(voices_list))
            /\ pc' = "done"
            /\ UNCHANGED calls
       ELSE /\ calls' = Append(calls, [op |-> "load_voice", name |-> name])
            /\ IF name \in kokoro.raises
               THEN result' = Single(FallbackVoice(voices_list)) /\ pc' = "done"
               ELSE pc' = (IF pc = "blend" THEN "load2" ELSE "get") /\ UNCHANGED result
    /\ UNCHANGED << voice, kokoro, voices_list, weights, tensors, parsed >>

\* voice1_tensor = kokoro.voices.get(...); voice2_tensor = kokoro.voices.get(...)
GetVoices ==
    /\ pc = "get"
    /\ tensors' = << VoicesGet(voices_list[1]), VoicesGet(voices_list[2]) >>
    /\ calls' = calls \o << [op |-> "voices.get", name |-> voices_list[1]],
                            [op |-> "voices.get", name |-> voices_list[2]] >>
    /\ pc' = "combine"
    /\ UNCHANGED << voice, kokoro, voices_list, weights, result, parsed >>

\* the blend, and validate_voice's return of the tensor or of the fallback voice
BlendTensors ==
    /\ pc = "combine"
    /\ LET blended == BlendOf(tensors, weights) IN
       result' = IF blended # NoneValue THEN Blend(blended.v)
                 ELSE Single(FallbackVoice(voices_list))
    /\ pc' = "done"
    /\ UNCHANGED << voice, kokoro, voices_list, weights, tensors, calls, parsed >>

try_tensor_blend ==
    \/ LoadVoice
    \/ GetVoices
    \/ BlendTensors

(* -------------------------- parse_voice_blend -------------------------- *)
ParsedBlend(v1, w1, v2, w2) ==
    [tag |-> "Parsed", voice1 |-> v1, weight1 |-> w1, voice2 |-> v2, weight2 |-> w2]

ParsedNone == [tag |-> "None"]

\* one part of parse_voice_blend: name and weight, or the ValueError of float()
ParsePart(part) ==
    IF Contains(part, ":")
    THEN LET vw == SplitFirst(part, ":") IN
         [v |-> vw[1], ok |-> IsNumber(vw[2]), w |-> IF IsNumber(vw[2]) THEN float(vw[2]) ELSE Zero]
    ELSE [v |-> part, ok |-> TRUE, w |-> DefaultWeight]

\* faulty variant: parts after the second are ignored
parse_voice_blend_firsttwo(v) ==
    IF ~is_voice_blend(v) THEN ParsedNone
    ELSE LET parts == Split(v, ",") IN
         LET p1 == ParsePart(Strip(parts[1]))
             p2 == ParsePart(Strip(parts[2]))
         IN IF p1.ok /\ p2.ok
            THEN ParsedBlend(Strip(p1.v), p1.w, Strip(p2.v), p2.w)
            ELSE ParsedNone

parse_voice_blend(v) ==
    IF ~is_voice_blend(v) THEN ParsedNone
    ELSE LET parts == Split(v, ",") IN
         IF Len(parts) # 2 THEN ParsedNone
         ELSE LET p1 == ParsePart(Strip(parts[1]))
                  p2 == ParsePart(Strip(parts[2]))
              IN IF p1.ok /\ p2.ok
                 THEN ParsedBlend(Strip(p1.v), p1.w, Strip(p2.v), p2.w)
                 ELSE ParsedNone

ParseVoiceBlend ==
    /\ pc = "idle"
    /\ parsed' = parse_voice_blend(voice)
    /\ pc' = "parsed"
    /\ UNCHANGED << voice, kokoro, voices_list, weights, tensors, calls, result >>

Next ==
    \/ validate_voice
    \/ try_tensor_blend
    \/ ParseVoiceBlend

Spec == Init /\ [][Next]_vars

(* ------------------------------ properties ----------------------------- *)
\* the flattened static catalog as a set
Catalog == SeqToSet(get_all_voices)

\* number of commas of the selector
Commas == Cardinality({ i \in 1..Len(voice) : voice[i] = "," })

\* the selector as parse_voice_blend reads it: identifiers and raw weights
Raw == parse_voice_blend(voice)

\* validate_voice has returned or exited
Returned == pc \in { "done", "exit" }

\* a blend selector with two catalog identifiers, parseable weights, nonzero sum
ValidBlend ==
    /\ Commas = 1
    /\ Raw.tag = "Parsed"
    /\ Raw.voice1 \in Catalog
    /\ Raw.voice2 \in Catalog
    /\ FAdd(Raw.weight1, Raw.weight2) # Zero

\* the backend is absent, lacks the lookup, the lookup raises, or it hands
\* back something that is no tensor
NoUsableEmbedding ==
    \/ kokoro = NoBackend
    \/ kokoro.load = "missing"
    \/ { Raw.voice1, Raw.voice2 } \cap kokoro.raises # {}
    \/ \E id \in { Raw.voice1, Raw.voice2 } : kokoro.voices[id].t # "tensor"

\* C1: a valid blend selector resolved without a usable embedding lookup does
\* not fail; it returns the first-listed identifier as a single voice.
C1_FallbackToFirst ==
    (Returned /\ ValidBlend /\ NoUsableEmbedding) => result = Single(Raw.voice1)

C1_Witness ==
    /\ pc = "done"
    /\ ValidBlend
    /\ kokoro # NoBackend
    /\ kokoro.load = "ok"
    /\ kokoro.voices[Raw.voice2].t = "array"
    /\ Raw.voice1 # Raw.voice2
    /\ result = Single(Raw.voice1)

\* the supported set C2 describes: the backend's listing when it has one
ListedOrCatalog ==
    IF kokoro # NoBackend /\ kokoro.listed.has THEN kokoro.listed.names ELSE Catalog

\* what validate_voice does with identifiers checked against the set S:
\* a single selector in S is returned, one outside S is rejected; a blend
\* selector with an identifier outside S is rejected, one with both inside is not
ValidatesAgainst(S) ==
    Returned =>
        IF ~is_voice_blend(voice)
        THEN IF voice \in S THEN result = Single(voice)
             ELSE result.tag = "Error" /\ result.kind = "UnsupportedVoice"
        ELSE Raw.tag = "Parsed" =>
                IF Raw.voice1 \in S /\ Raw.voice2 \in S
                THEN ~(result.tag = "Error" /\ result.kind = "UnsupportedVoice")
                ELSE result.tag = "Error" /\ result.kind = "UnsupportedVoice"

\* C2 as stated: identifiers are validated against the backend's listed set
\* when the backend has a list-voices capability, else against the catalog.
C2_Original == ValidatesAgainst(ListedOrCatalog)

\* C2 amended: identifiers are always validated against the flattened static
\* catalog, whether or not the backend has a list-voices capability.
C2_AlwaysCatalog == ValidatesAgainst(Catalog)

C2_Witness ==
    /\ Returned
    /\ kokoro # NoBackend
    /\ kokoro.listed.has
    /\ voice = xx
    /\ voice \in kokoro.listed.names
    /\ result.tag = "Error"
    /\ result.kind = "UnsupportedVoice"

\* s lists exactly the set S in ascending string order
IsSortedListOf(s, S) ==
    /\ SeqToSet(s) = S
    /\ \A i \in 1..(Len(s) - 1) : StrLess(s[i], s[i + 1])

\* C3 as stated: a selector without comma whose trimmed text is supported
\* resolves to Single(selector), any other fails with UnsupportedVoice.
C3_Original ==
    (Returned /\ ~is_voice_blend(voice)) =>
        IF Strip(voice) \in Catalog THEN result = Single(voice)
        ELSE result.tag = "Error" /\ result.kind = "UnsupportedVoice"

\* C3 amended: a selector without comma resolves to Single(selector) when the
\* selector exactly as given (untrimmed) is in the supported set; otherwise it
\* fails with UnsupportedVoice naming the selector and the sorted supported set.
C3_ExactMembership ==
    (Returned /\ ~is_voice_blend(voice)) =>
        IF voice \in Catalog THEN result = Single(voice)
        ELSE /\ result.tag = "Error"
             /\ result.kind = "UnsupportedVoice"
             /\ result.detail = voice
             /\ IsSortedListOf(result.supported, Catalog)

C3_Witness ==
    /\ pc = "exit"
    /\ ~is_voice_blend(voice)
    /\ voice # Strip(voice)
    /\ Strip(voice) \in Catalog
    /\ result.kind = "UnsupportedVoice"

\* some comma-separated part carries a colon followed by text that is no number
SomeBadWeight ==
    \E i \in 1..Len(Split(voice, ",")) :
        LET part == Split(voice, ",")[i] IN
        /\ Contains(part, ":")
        /\ ~IsNumber(SubSeq(part, FirstIndex(part, ":") + 1, Len(part)))

\* C4 as stated: a selector with more than one comma always fails with
\* MalformedBlendSelector.
C4_Original ==
    (Returned /\ Commas > 1) =>
        result.tag = "Error" /\ result.kind = "MalformedBlendSelector"

\* C4 amended: a selector with more than one comma always fails and never
\* yields Single or Blend; the failure is InvalidWeight when some part has a
\* weight text that is not a number, MalformedBlendSelector otherwise
\* (unsupported identifiers included).
C4_ManyPartsRejected ==
    (Returned /\ Commas > 1) =>
        /\ result.tag = "Error"
        /\ result.kind = IF SomeBadWeight THEN "InvalidWeight" ELSE "MalformedBlendSelector"

C4_Witness ==
    /\ pc = "exit"
    /\ Commas > 1
    /\ ~SomeBadWeight
    /\ \E i \in 1..Len(voices_list) : voices_list[i] \notin Catalog
    /\ result.kind = "MalformedBlendSelector"

\* C5: with one comma and parseable weights, an identifier outside the
\* supported set fails the resolution with UnsupportedVoice naming the
\* first-listed invalid identifier, also when the raw weights sum to zero.
C5_BlendIdentifiers ==
    (Returned /\ Commas = 1 /\ Raw.tag = "Parsed"
        /\ (Raw.voice1 \notin Catalog \/ Raw.voice2 \notin Catalog)) =>
        /\ result.tag = "Error"
        /\ result.kind = "UnsupportedVoice"
        /\ result.detail = IF Raw.voice1 \notin Catalog THEN Raw.voice1 ELSE Raw.voice2

C5_Witness ==
    /\ pc = "exit"
    /\ Commas = 1
    /\ Raw.tag = "Parsed"
    /\ Raw.voice1 \notin Catalog
    /\ Raw.voice2 \notin Catalog
    /\ Raw.voice1 # Raw.voice2
    /\ FAdd(Raw.weight1, Raw.weight2) = Zero
    /\ result.kind = "UnsupportedVoice"
    /\ result.detail = Raw.voice1

\* the call is past the normalization step of a blend selector
PastNormalize == pc \in { "blend", "load2", "get", "combine", "done" } /\ is_voice_blend(voice)

\* exact value of a float, in units of 2^-(MantBits + 2)
Units(f) == f.m * Pow2(f.e + MantBits + 2)

\* C6 as stated: a zero sum fails with ZeroWeightSum, and otherwise the
\* weights used for blending sum to exactly 100.
C6_Original ==
    /\ (Returned /\ Commas = 1 /\ Raw.tag = "Parsed" /\ Raw.voice1 \in Catalog
            /\ Raw.voice2 \in Catalog /\ FAdd(Raw.weight1, Raw.weight2) = Zero)
        => (result.tag = "Error" /\ result.kind = "ZeroWeightSum")
    /\ PastNormalize => FAdd(weights[1], weights[2]) = Hundred

\* C6 amended: a zero sum fails with ZeroWeightSum; otherwise the weights used
\* for blending are w_i * (100 / (w1 + w2)) evaluated in floating point (the
\* quotient is rounded, then each product), so they sum to 100 only up to
\* rounding error, not always exactly; a sum that is already 100 leaves the
\* weights unchanged, and no other range check is applied.
C6_Normalization ==
    /\ (Returned /\ Commas = 1 /\ Raw.tag = "Parsed" /\ Raw.voice1 \in Catalog
            /\ Raw.voice2 \in Catalog /\ FAdd(Raw.weight1, Raw.weight2) = Zero)
        => (result.tag = "Error" /\ result.kind = "ZeroWeightSum")
    /\ PastNormalize =>
        LET total == FAdd(Raw.weight1, Raw.weight2)
            scale == FDiv(Hundred, total)
            sum == FAdd(weights[1], weights[2])
        IN /\ total # Zero
           /\ weights = IF total = Hundred THEN << Raw.weight1, Raw.weight2 >>
                        ELSE << FMul(Raw.weight1, scale), FMul(Raw.weight2, scale) >>
           /\ \A i \in 1..2 : weights[i].e + MantBits + 2 >= 0
           /\ Abs(Units(sum) - Units(Hundred)) * Pow2(MantBits - 2)
                <= Abs(Units(weights[1])) + Abs(Units(weights[2])) + Units(Hundred)

C6_Witness ==
    /\ PastNormalize
    /\ Raw.weight1 = FromInt(1)
    /\ Raw.weight2 = FromInt(5)
    /\ weights # << Raw.weight1, Raw.weight2 >>
    /\ FAdd(weights[1], weights[2]) # Hundred

\* the backend hands out a tensor for each identifier, without raising
HasEmbeddings ==
    /\ kokoro # NoBackend
    /\ kokoro.load = "ok"
    /\ { Raw.voice1, Raw.voice2 } \cap kokoro.raises = {}
    /\ \A id \in { Raw.voice1, Raw.voice2 } : kokoro.voices[id].t = "tensor"

Dim(id) == Len(kokoro.voices[id].v)

\* C7: a valid blend selector resolved with embeddings of equal dimensionality
\* yields a Blend whose i-th element is
\* embedding1[i] * (w1'/100) + embedding2[i] * (w2'/100).
C7_BlendVector ==
    (Returned /\ ValidBlend /\ HasEmbeddings /\ Dim(Raw.voice1) = Dim(Raw.voice2)) =>
        /\ result.tag = "Blend"
        /\ Len(result.tensor) = Dim(Raw.voice1)
        /\ \A i \in 1..Dim(Raw.voice1) :
              result.tensor[i] =
                 FAdd(FMul(kokoro.voices[Raw.voice1].v[i], FDiv(weights[1], Hundred)),
                      FMul(kokoro.voices[Raw.voice2].v[i], FDiv(weights[2], Hundred)))

C7_Witness ==
    /\ pc = "done"
    /\ ValidBlend
    /\ HasEmbeddings
    /\ Raw.voice1 = af_sarah
    /\ Raw.voice2 = am_adam
    /\ Raw.weight1 = FromInt(60)
    /\ Raw.weight2 = FromInt(40)
    /\ Dim(af_sarah) = 2
    /\ Dim(am_adam) = 2
    /\ result.tag = "Blend"

\* C8 as stated: embeddings of different dimensionality make the resolution
\* fail with BackendError.
C8_Original ==
    (Returned /\ ValidBlend /\ HasEmbeddings /\ Dim(Raw.voice1) # Dim(Raw.voice2)) =>
        result.tag = "Error" /\ result.kind = "BackendError"

\* C8 amended: embeddings of different dimensionality never make the
\* resolution fail: when the two shapes cannot be broadcast together the
\* arithmetic raises inside try_tensor_blend and the result is the fallback
\* Single(identifier1); when they can (one of them has a single element) the
\* result is a Blend of the broadcast vectors.
C8_MismatchFallsBack ==
    (Returned /\ ValidBlend /\ HasEmbeddings /\ Dim(Raw.voice1) # Dim(Raw.voice2)) =>
        IF Dim(Raw.voice1) = 1 \/ Dim(Raw.voice2) = 1
        THEN /\ result.tag = "Blend"
             /\ Len(result.tensor) \in { Dim(Raw.voice1), Dim(Raw.voice2) }
             /\ Len(result.tensor) > 1
        ELSE result = Single(Raw.voice1)

C8_Witness ==
    /\ pc = "done"
    /\ ValidBlend
    /\ HasEmbeddings
    /\ Raw.voice1 # Raw.voice2
    /\ Dim(Raw.voice1) = 2
    /\ Dim(Raw.voice2) = 3
    /\ result = Single(Raw.voice1)

\* the text before / after the single comma, and the pieces of one such part
CommaAt == FirstIndex(voice, ",")
PartText(k) ==
    IF k = 1 THEN SubSeq(voice, 1, CommaAt - 1) ELSE SubSeq(voice, CommaAt + 1, Len(voice))
HasColon(k) == \E i \in 1..Len(PartText(k)) : PartText(k)[i] = ":"
ColonAt(k) == FirstIndex(PartText(k), ":")
NameText(k) ==
    IF HasColon(k) THEN SubSeq(PartText(k), 1, ColonAt(k) - 1) ELSE PartText(k)
WeightText(k) == SubSeq(PartText(k), ColonAt(k) + 1, Len(PartText(k)))

\* C9: parse_voice_blend returns None exactly when the selector has not
\* exactly two comma-separated parts or a present weight text is no number;
\* otherwise the two trimmed identifiers with their parsed weights, 50.0 for
\* a part without colon, unvalidated and unnormalized.
C9_ParseBlend ==
    pc = "parsed" =>
        IF Commas # 1 \/ \E k \in 1..2 : HasColon(k) /\ ~IsNumber(WeightText(k))
        THEN parsed = ParsedNone
        ELSE /\ parsed.tag = "Parsed"
             /\ parsed.voice1 = Strip(NameText(1))
             /\ parsed.voice2 = Strip(NameText(2))
             /\ parsed.weight1 = IF HasColon(1) THEN float(WeightText(1)) ELSE FromInt(50)
             /\ parsed.weight2 = IF HasColon(2) THEN float(WeightText(2)) ELSE FromInt(50)

C9_Witness ==
    /\ pc = "parsed"
    /\ parsed.tag = "Parsed"
    /\ ~HasColon(1)
    /\ HasColon(2)
    /\ parsed.voice1 \notin Catalog
    /\ parsed.weight1 = FromInt(50)
    /\ FAdd(parsed.weight1, parsed.weight2) = Zero
    /\ voice # Strip(voice)

\* s is an initial piece of t
IsPrefix(s, t) == Len(s) <= Len(t) /\ s = SubSeq(t, 1, Len(s))

\* C10: the backend is called only after parsing, the two-part check, the
\* membership check of both identifiers and the zero-sum check have passed,
\* so a run ending in a hard failure and a single-voice run make no call;
\* the first-listed identifier is always asked for before the second.
C10_BackendCallOrder ==
    /\ calls # <<>> =>
          /\ ValidBlend
          /\ pc \in { "load2", "get", "combine", "done" }
          /\ IsPrefix(calls, << [op |-> "load_voice", name |-> Raw.voice1],
                                [op |-> "load_voice", name |-> Raw.voice2],
                                [op |-> "voices.get", name |-> Raw.voice1],
                                [op |-> "voices.get", name |-> Raw.voice2] >>)
    /\ (result.tag = "Error" \/ ~is_voice_blend(voice)) => calls = <<>>

C10_Witness ==
    /\ pc = "done"
    /\ Len(calls) = 4
    /\ Raw.voice1 # Raw.voice2
    /\ calls[1].name = Raw.voice1
    /\ calls[2].name = Raw.voice2

====
